---- MODULE Spec2Model ----
(***************************************************************************)
(* Model of src/app.py: format_line, write_csv and write_summary.          *)
(*                                                                         *)
(* A Python string is a sequence of tokens; "".join(lines) is the          *)
(* concatenation of the token sequences.  The line terminator "\n" is the  *)
(* token NL, so "a title followed by the header on the same line" and "a   *)
(* title on a line of its own" are different texts.                        *)
(***************************************************************************)
EXTENDS Integers, Sequences, FiniteSets, TLC

VARIABLES
    output_data,    \* the OutputData snapshot handed to write_summary
    summary_file,   \* the file at output_data.summary_fn
    lines,          \* write_summary's local list `lines` at its end or at the raise
    status,         \* "idle" before the first call, then "ok" or the exception raised
    csv_file,       \* the file at output_data.csv_fn
    csv_log,        \* history: the data list of every write_csv call, in call order
    fl_args,        \* arguments of a direct format_line call
    fl_result       \* what that call returned, or the exception it raised

vars == <<output_data, summary_file, lines, status, csv_file, csv_log, fl_args, fl_result>>

----------------------------------------------------------------------------
(* Bounds *)

MaxRecs == 3        \* records per category in the category under study
MaxCols == 3        \* list lengths of a direct format_line call
MaxCsvCalls == 3    \* write_csv calls
MaxCsvFields == 2   \* values in one CSV row

SeqsUpTo(S, n) == UNION {[1..k -> S] : k \in 0..n}

Min(a, b) == IF a < b THEN a ELSE b

----------------------------------------------------------------------------
(* Strings as token sequences *)

Item(f, p0, p1) == [f |-> f, p0 |-> p0, p1 |-> p1]

Lit(s) == Item("lit", s, "")

NoItem == Item("", "", "")

\* one "{:<just><width>}" field filled with an item
Cell(item, just, width) == [kind |-> "cell", item |-> item, just |-> just, width |-> width]

\* literal or interpolated text that is not a formatted field
Text(item) == [kind |-> "text", item |-> item, just |-> "", width |-> 0]

NL == [kind |-> "nl", item |-> NoItem, just |-> "", width |-> 0]

\* one element of the list `lines`: the string s, tagged with the category that
\* appended it and its role in the section
Entry(cat, kind, s) == [cat |-> cat, kind |-> kind, s |-> s]

RECURSIVE Join(_)
Join(ls) == IF ls = <<>> THEN <<>> ELSE Head(ls).s \o Join(Tail(ls))

----------------------------------------------------------------------------
(* format_line *)

format_line(items, column_widths, justifications) ==
    LET n == Min(Len(justifications), Len(column_widths))   \* zip stops at the shorter
    IN  IF Len(items) < n
        THEN [err |-> "IndexError", s |-> <<>>]             \* str.format: index out of range
        ELSE [err |-> "",
              s   |-> [i \in 1..n |-> Cell(items[i], justifications[i], column_widths[i])]
                      \o <<NL>>]

----------------------------------------------------------------------------
(* write_summary: the nested append_formatted_section *)

\* the state of one write_summary call while it renders: the list `lines` and
\* the exception raised so far ("" when none)
St(ls, err) == [lines |-> ls, err |-> err]

Raise(st, err) == St(st.lines, err)

Add(st, cat, kind, s) == St(Append(st.lines, Entry(cat, kind, s)), st.err)

RECURSIVE AppendRows(_, _, _, _, _, _)
AppendRows(st, cat, data_rows, i, col_widths, justifications) ==
    IF i > Len(data_rows)
    THEN st
    ELSE LET r == format_line(data_rows[i], col_widths, justifications)
         IN  IF r.err # ""
             THEN Raise(st, r.err)
             ELSE AppendRows(Add(st, cat, "row", r.s), cat, data_rows, i + 1,
                             col_widths, justifications)

\* `cat` is not a parameter of the code: it tags the appended entries with the
\* category whose block they belong to
AppendFormattedSection(st, cat, title, data_rows, headers, col_widths, justifications) ==
    IF st.err # "" \/ data_rows = <<>>               \* `if data_rows:`
    THEN st
    ELSE LET s0 == Add(st, cat, "title", title)      \* lines.append(title): no "\n"
             h  == format_line(headers, col_widths, justifications)
             s1 == Add(s0, cat, "header", h.s)
             s2 == AppendRows(s1, cat, data_rows, 1, col_widths, justifications)
         IN  IF h.err # "" THEN Raise(s0, h.err)
             ELSE IF s2.err # "" THEN s2
             ELSE Add(s2, cat, "sep", <<NL>>)

FlushLastSkipped(st, cat, title, data_rows, headers, col_widths, justifications) ==
    st

\* the call after each grouping loop, which emits the last accumulated group
FlushLast(st, cat, title, data_rows, headers, col_widths, justifications) ==
    AppendFormattedSection(st, cat, title, data_rows, headers, col_widths, justifications)

\* the rows of a category: a record's accessors applied to its params
StatRow(p, fields) == [i \in 1..Len(fields) |-> Item(fields[i], p.p0, p.p1)]

Headers(names) == [i \in 1..Len(names) |-> Lit(names[i])]

----------------------------------------------------------------------------
(* write_summary: preamble and the seven category blocks *)

Preamble(od) ==
    LET l1 == <<Text(Lit("Summary:")), NL, Text(Item("Model", od.model_name, "")), NL,
                Text(Item("Start Time", od.time, "")), NL>>
        l2 == <<Text(Item("Runtime", od.run_time, "")), NL,
                Text(Item("CPU", od.cpu_model, "")), NL>>
        l3 == <<Text(Lit("Memory SKUs:")), NL>>
        skus == [i \in 1..Len(od.mem_skus) |->
                    Entry("preamble", "text", <<Text(Item("DIMM", od.mem_skus[i], "")), NL>>)]
    IN  St(<<Entry("preamble", "text", l1), Entry("preamble", "text", l2),
             Entry("preamble", "text", l3)>> \o skus, "")

MemWidths == <<15, 20, 20, 20>>
CpuWidths == <<15, 15, 15, 15>>
CtempsWidths == <<15, 10, 10, 10>>
WattsWidths == <<10, 10, 10, 10>>
FiveWidths == <<15, 15, 15, 15, 15>>
FourJust == <<"<", ">", ">", ">">>
FiveJust == <<"<", ">", ">", ">", ">">>

MinMaxMean == <<"label", "min", "max", "mean">>
CurMinMaxMean == <<"label", "current", "min", "max", "mean">>

\* f"{vendor}{driver_version}" and the fan driver: the empty string has no token
Title(name, suffix) ==
    IF name = "" /\ suffix = "" THEN <<>> ELSE <<Text(Item("title", name, suffix))>>

RECURSIVE MemLoop(_, _, _, _, _, _)
MemLoop(st, recs, i, mem_type, mem_data_rows, headers) ==
    IF st.err # "" THEN st
    ELSE IF i > Len(recs)
    THEN FlushLast(st, "mem", <<>>, mem_data_rows, headers, MemWidths, FourJust)
    ELSE LET params  == recs[i]
             changed == mem_type # params.p0
             flush   == changed /\ mem_data_rows # <<>>
             st1     == IF flush
                        THEN AppendFormattedSection(st, "mem", <<>>, mem_data_rows, headers,
                                                    MemWidths, FourJust)
                        ELSE st
             rows1   == IF flush THEN <<>> ELSE mem_data_rows
             headers1 == IF changed
                         THEN Headers(<<params.p0, "Min", "Max", "Mean">>)
                         ELSE headers
         IN  MemLoop(st1, recs, i + 1, params.p0,
                     Append(rows1, StatRow(params, MinMaxMean)), headers1)

RenderMem(st, mem) == MemLoop(st, mem.recs, 1, "", <<>>, <<>>)

\* zip(mhz, usage): one row per position both collections have
CpuRow(mhz_params, usage_params) ==
    <<Item("label", mhz_params.p0, mhz_params.p1),
      Item("min", usage_params.p1, mhz_params.p1),
      Item("max", usage_params.p1, mhz_params.p1),
      Item("mean", usage_params.p1, mhz_params.p1)>>

RenderCpu(st, mhz, usage) ==
    LET n == Min(Len(mhz.recs), Len(usage.recs))
        cpu_data_rows == [i \in 1..n |-> CpuRow(mhz.recs[i], usage.recs[i])]
    IN  AppendFormattedSection(st, "cpu", <<>>, cpu_data_rows,
                               Headers(<<"Core", "Min %:Mhz", "Max %:Mhz", "Mean %:Mhz">>),
                               CpuWidths, FourJust)

SingleRowsDropLast(recs) == [i \in 1..(Len(recs) - 1) |-> StatRow(recs[i], MinMaxMean)]

\* the loop that builds ctemps_data_rows / watts_data_rows
SingleRows(recs) == [i \in 1..Len(recs) |-> StatRow(recs[i], MinMaxMean)]

RenderCtemps(st, ctemps) ==
    IF st.err # "" \/ ctemps.empty THEN st
    ELSE AppendFormattedSection(st, "ctemps", <<>>, SingleRows(ctemps.recs),
                                Headers(<<"Core", "Min C", "Max C", "Mean C">>),
                                CtempsWidths, FourJust)

RenderWattsUnguarded(st, watts) ==
    AppendFormattedSection(st, "watts", <<>>, SingleRows(watts.recs),
                           Headers(<<"CPU", "Min W", "Max W", "Mean W">>),
                           WattsWidths, FourJust)

RenderWatts(st, watts) ==
    IF st.err # "" \/ watts.empty THEN st
    ELSE AppendFormattedSection(st, "watts", <<>>, SingleRows(watts.recs),
                                Headers(<<"CPU", "Min W", "Max W", "Mean W">>),
                                WattsWidths, FourJust)

FanHeaders == Headers(<<"Fan", "Current(RPM)", "Min(RPM)", "Max(RPM)", "Mean(RPM)">>)

RECURSIVE FansLoop(_, _, _, _, _)
FansLoop(st, recs, i, driver, fan_data_rows) ==
    IF st.err # "" THEN st
    ELSE IF i > Len(recs)
    THEN FlushLast(st, "fans", Title(driver, ""), fan_data_rows, FanHeaders,
                   FiveWidths, FiveJust)
    ELSE LET params == recs[i]
             flush  == driver # params.p0 /\ fan_data_rows # <<>>
             st1    == IF flush
                       THEN AppendFormattedSection(st, "fans", Title(driver, ""),
                                                   fan_data_rows, FanHeaders,
                                                   FiveWidths, FiveJust)
                       ELSE st
             rows1  == IF flush THEN <<>> ELSE fan_data_rows
         IN  FansLoop(st1, recs, i + 1, params.p0,
                      Append(rows1, StatRow(params, CurMinMaxMean)))

RenderFans(st, fans) ==
    IF st.err # "" \/ fans.empty THEN st
    ELSE FansLoop(st, fans.recs, 1, "", <<>>)

GpuHeaders == Headers(<<"Data", "Current", "Min", "Max", "Mean">>)

\* gpus.get_subven(vendor, name): some devices report a subsystem, some none
get_subven(vendor, name) == IF name = "g0" THEN "sub0" ELSE ""

\* the one-item row [f"GPU: {name}\n{subsystem_info}"]
GpuNameRow(vendor, name) == <<Item("GPU", name, get_subven(vendor, name))>>

\* driver_version is "unbound" until the loop body has run once
RECURSIVE GpusLoop(_, _, _, _, _, _, _)
GpusLoop(st, recs, i, vendor, name, driver_version, gpu_data_rows) ==
    IF st.err # "" THEN st
    ELSE IF i > Len(recs)
    THEN IF driver_version = "unbound"
         THEN Raise(st, "UnboundLocalError")
         ELSE FlushLast(st, "gpus", Title(vendor, driver_version), gpu_data_rows,
                        GpuHeaders, FiveWidths, FiveJust)
    ELSE LET params  == recs[i]
             dv0     == ""                                  \* reset on every iteration
             changed == vendor # params.p0
             flush   == changed /\ gpu_data_rows # <<>>
             st1     == IF flush
                        THEN AppendFormattedSection(st, "gpus", Title(vendor, dv0),
                                                    gpu_data_rows, GpuHeaders,
                                                    FiveWidths, FiveJust)
                        ELSE st
             rows1   == IF flush THEN <<>> ELSE gpu_data_rows
             vendor1 == params.p0
             dv1     == IF changed /\ vendor1 = "nvidia" THEN " - driver" ELSE dv0
             rows2   == IF name # params.p1
                        THEN Append(rows1, GpuNameRow(vendor1, params.p1))
                        ELSE rows1
             rows3   == IF params.cur # "None"
                        THEN Append(rows2, StatRow(params, CurMinMaxMean))
                        ELSE rows2
         IN  GpusLoop(st1, recs, i + 1, vendor1, params.p1, dv1, rows3)

RenderGpus(st, gpus) ==
    IF st.err # "" \/ gpus.empty THEN st
    ELSE GpusLoop(st, gpus.recs, 1, "", "", "unbound", <<>>)

\* f"Device: {drive}\nDrive Model: {drives.get_model(drive)}"
DriveTitle(drive) ==
    <<Text(Item("Device", drive, "")), NL, Text(Item("Drive Model", drive, ""))>>

RECURSIVE DrivesLoop(_, _, _, _, _)
DrivesLoop(st, recs, i, drive, drive_data_rows) ==
    IF st.err # "" THEN st
    ELSE IF i > Len(recs)
    THEN FlushLast(st, "drives", DriveTitle(drive), drive_data_rows, GpuHeaders,
                   FiveWidths, FiveJust)
    ELSE LET params == recs[i]
             flush  == drive # params.p0 /\ drive_data_rows # <<>>
             st1    == IF flush
                       THEN AppendFormattedSection(st, "drives", DriveTitle(drive),
                                                   drive_data_rows, GpuHeaders,
                                                   FiveWidths, FiveJust)
                       ELSE st
             rows1  == IF flush THEN <<>> ELSE drive_data_rows
             rows2  == IF params.cur # "None"
                       THEN Append(rows1, StatRow(params, CurMinMaxMean))
                       ELSE rows1
         IN  DrivesLoop(st1, recs, i + 1, params.p0, rows2)

RenderDrives(st, drives) ==
    IF st.err # "" \/ drives.empty THEN st
    ELSE DrivesLoop(st, drives.recs, 1, "", <<>>)

\* everything write_summary does before it opens the summary file
Render(od) ==
    LET s1 == RenderMem(Preamble(od), od.mem)
        s2 == RenderCpu(s1, od.mhz, od.usage)
        s3 == RenderCtemps(s2, od.ctemps)
        s4 == RenderWatts(s3, od.watts)
        s5 == RenderFans(s4, od.fans)
        s6 == RenderGpus(s5, od.gpus)
    IN  RenderDrives(s6, od.drives)

File(exists, content) == [exists |-> exists, content |-> content]

NoFile == File(FALSE, <<>>)

OpenWriteAppending(old, res) ==
    IF res.err # "" THEN old ELSE File(TRUE, old.content \o Join(res.lines))

OpenWriteBeforeRender(old, res) ==
    IF res.err # "" THEN File(TRUE, <<>>) ELSE File(TRUE, Join(res.lines))

\* open(summary_fn, mode='w') and write("".join(lines)), reached only when
\* rendering raised nothing
OpenWrite(old, res) ==
    IF res.err # "" THEN old ELSE File(TRUE, Join(res.lines))

WriteSummary ==
    /\ \E res \in {Render(output_data)} :
        /\ lines' = res.lines
        /\ status' = IF res.err = "" THEN "ok" ELSE res.err
        /\ summary_file' = OpenWrite(summary_file, res)
        /\ UNCHANGED <<output_data, csv_file, csv_log, fl_args, fl_result>>

----------------------------------------------------------------------------
(* write_csv *)

CRLF == [kind |-> "crlf", item |-> NoItem, just |-> "", width |-> 0]

Comma == [kind |-> "comma", item |-> NoItem, just |-> "", width |-> 0]

\* csv.writer.writerow: the values separated by commas, then the terminator "\r\n".
\* The values of the model need no quoting.
RECURSIVE CommaJoin(_)
CommaJoin(data) ==
    IF data = <<>> THEN <<>>
    ELSE IF Len(data) = 1 THEN <<Text(Lit(data[1]))>>
    ELSE <<Text(Lit(data[1])), Comma>> \o CommaJoin(Tail(data))

writerow(data) == CommaJoin(data) \o <<CRLF>>

OpenTruncate(old, text) == File(TRUE, text)

\* open(csv_fn, mode='a'): creates the file when absent, writes at its end
OpenAppend(old, text) == File(TRUE, old.content \o text)

WriteCsv(data) ==
    /\ Len(csv_log) < MaxCsvCalls
    /\ csv_file' = OpenAppend(csv_file, writerow(data))
    /\ csv_log' = Append(csv_log, data)
    /\ UNCHANGED <<output_data, summary_file, lines, status, fl_args, fl_result>>

\* reading the log back: the rows, each the list of its values
RECURSIVE ParseRows(_, _)
ParseRows(content, row) ==
    IF content = <<>> THEN <<>>
    ELSE LET tok == Head(content)
         IN  IF tok.kind = "crlf" THEN <<row>> \o ParseRows(Tail(content), <<>>)
             ELSE IF tok.kind = "comma" THEN ParseRows(Tail(content), row)
             ELSE ParseRows(Tail(content), Append(row, tok.item.p0))

----------------------------------------------------------------------------
(* The inputs *)

Rec(p0, p1, cur) == [p0 |-> p0, p1 |-> p1, cur |-> cur]

\* a collection write_summary asks is_empty() of, and one it only iterates
Cat(empty, recs) == [empty |-> empty, recs |-> recs]

Coll(recs) == [recs |-> recs]

\* Discriminators (params[0]) and device names (params[1] of a GPU record) are
\* non-empty strings, as the sensor, driver, vendor and device names they hold are.
Keys == {"k1", "k2"}

Currents == {"None", "val"}    \* get_current(params): None or a value

MemRecs == {Rec(t, k, "val") : t \in {"Mem", "Swap"}, k \in Keys}

CoreRecs == {Rec("core", k, "val") : k \in Keys}

FanRecs == {Rec(d, k, "val") : d \in {"nct6775", "thinkpad"}, k \in Keys}

GpuRecs == {Rec(v, n, c) : v \in {"nvidia", "amdgpu"}, n \in {"g0", "g1"}, c \in Currents}

DriveRecs == {Rec(d, "temp", c) : d \in {"sda", "nvme0"}, c \in Currents}

Categories == {"mem", "cpu", "ctemps", "watts", "fans", "gpus", "drives"}

\* the rest of the snapshot while one category is varied: no hardware at all
\* (flagged empty where the code asks, with records left over), everything
\* present but the GPUs, and everything present
Backgrounds == {"absent", "present", "gpu"}

Base(b) ==
    LET here == b # "absent"
    IN  [model_name |-> "model", time |-> "t0", run_time |-> "1h", cpu_model |-> "cpu",
         mem_skus |-> IF here THEN <<"sku0">> ELSE <<>>,
         mem      |-> Coll(IF here THEN <<Rec("Mem", "k1", "val")>> ELSE <<>>),
         mhz      |-> Coll(IF here THEN <<Rec("core", "k1", "val")>> ELSE <<>>),
         usage    |-> Coll(IF here THEN <<Rec("core", "k1", "val")>> ELSE <<>>),
         ctemps   |-> Cat(~here, <<Rec("core", "k1", "val")>>),
         watts    |-> Cat(~here, <<Rec("core", "k1", "val")>>),
         fans     |-> Cat(~here, <<Rec("nct6775", "k1", "val")>>),
         gpus     |-> Cat(b # "gpu", <<Rec("nvidia", "g0", "val")>>),
         drives   |-> Cat(~here, <<Rec("sda", "temp", "val")>>)]

RecsOf(c) ==
    CASE c = "mem"    -> MemRecs
      [] c = "cpu"    -> CoreRecs
      [] c = "ctemps" -> CoreRecs
      [] c = "watts"  -> CoreRecs
      [] c = "fans"   -> FanRecs
      [] c = "gpus"   -> GpuRecs
      [] c = "drives" -> DriveRecs

\* the snapshot od with category c replaced by v (and, for the CPU block, the
\* usage collection by u)
Vary(od, c, v, u) ==
    CASE c = "mem"    -> [od EXCEPT !.mem = Coll(v.recs)]
      [] c = "cpu"    -> [od EXCEPT !.mhz = Coll(v.recs), !.usage = Coll(u)]
      [] c = "ctemps" -> [od EXCEPT !.ctemps = v]
      [] c = "watts"  -> [od EXCEPT !.watts = v]
      [] c = "fans"   -> [od EXCEPT !.fans = v]
      [] c = "gpus"   -> [od EXCEPT !.gpus = v]
      [] c = "drives" -> [od EXCEPT !.drives = v]

OldSummary == File(TRUE, <<Text(Lit("old report")), NL>>)

NoCall == [called |-> FALSE, err |-> "", s |-> <<>>]

NoArgs == [items |-> <<>>, column_widths |-> <<>>, justifications |-> <<>>]

----------------------------------------------------------------------------
(* Specifications *)

Init ==
    /\ \E b \in Backgrounds, c \in Categories, k \in 0..MaxRecs :
          \E e \in (IF c \in {"mem", "cpu"} THEN {FALSE} ELSE BOOLEAN),
             k2 \in (IF c = "cpu" THEN 0..MaxRecs ELSE {0}) :
             \E r \in [1..k -> RecsOf(c)], u \in [1..k2 -> CoreRecs] :
                output_data = Vary(Base(b), c, Cat(e, r), u)
    /\ summary_file \in {NoFile, OldSummary}
    /\ lines = <<>>
    /\ status = "idle"
    /\ csv_file = NoFile
    /\ csv_log = <<>>
    /\ fl_args = NoArgs
    /\ fl_result = NoCall

Next == WriteSummary

\* report generation from one snapshot
Spec == Init /\ [][Next]_vars

CsvValues == {"a", "b"}

InitCsv ==
    /\ output_data = Base("present")
    /\ summary_file = NoFile
    /\ lines = <<>>
    /\ status = "idle"
    /\ csv_file = NoFile                   \* a fresh path
    /\ csv_log = <<>>
    /\ fl_args = NoArgs
    /\ fl_result = NoCall

NextCsv == \E data \in SeqsUpTo(CsvValues, MaxCsvFields) : WriteCsv(data)

\* the sampling iterations: one write_csv call each
SpecCsv == InitCsv /\ [][NextCsv]_vars

FormatLine ==
    /\ ~fl_result.called
    /\ fl_result' = [called |-> TRUE] @@
                    format_line(fl_args.items, fl_args.column_widths, fl_args.justifications)
    /\ UNCHANGED <<output_data, summary_file, lines, status, csv_file, csv_log, fl_args>>

InitFmt ==
    /\ output_data = Base("present")
    /\ summary_file = NoFile
    /\ lines = <<>>
    /\ status = "idle"
    /\ csv_file = NoFile
    /\ csv_log = <<>>
    /\ fl_args \in [items : SeqsUpTo({Lit("x"), Lit("y")}, MaxCols),
                    column_widths : SeqsUpTo({5, 15}, MaxCols),
                    justifications : SeqsUpTo({"<", ">"}, MaxCols)]
    /\ fl_result = NoCall

NextFmt == FormatLine

\* format_line called directly on arbitrary lists
SpecFmt == InitFmt /\ [][NextFmt]_vars

----------------------------------------------------------------------------
(* Reading the report back *)

\* the entries a category appended, in order
CatLines(c) == SelectSeq(lines, LAMBDA e : e.cat = c)

OfKind(c, k) == SelectSeq(CatLines(c), LAMBDA e : e.kind = k)

NumSections(c) == Len(OfKind(c, "header"))

RowTexts(c) == [i \in 1..Len(OfKind(c, "row")) |-> OfKind(c, "row")[i].s]

\* kind and, for a data row, text of each entry
Shape(entries) ==
    [i \in 1..Len(entries) |->
        [k |-> entries[i].kind,
         s |-> IF entries[i].kind = "row" THEN entries[i].s ELSE <<>>]]

\* the maximal contiguous runs of equal discriminator, in order
RECURSIVE RunsOf(_)
RunsOf(recs) ==
    IF recs = <<>> THEN <<>>
    ELSE LET rest == RunsOf(Tail(recs))
         IN  IF rest # <<>> /\ Head(rest)[1].p0 = Head(recs).p0
             THEN <<(<<Head(recs)>> \o Head(rest))>> \o Tail(rest)
             ELSE <<(<<Head(recs)>>)>> \o rest

Present(recs) == SelectSeq(recs, LAMBDA p : p.cur # "None")

RowFields(c) == IF c = "mem" THEN MinMaxMean ELSE CurMinMaxMean

RowWidths(c) == IF c = "mem" THEN MemWidths ELSE FiveWidths

RowJust(c) == IF c = "mem" THEN FourJust ELSE FiveJust

\* the data line of one record
RowText(c, p) == format_line(StatRow(p, RowFields(c)), RowWidths(c), RowJust(c)).s

\* one section per run: title, header, the run's rows, separator
SectionShape(c, run) ==
    <<[k |-> "title", s |-> <<>>], [k |-> "header", s |-> <<>>]>>
    \o [i \in 1..Len(run) |-> [k |-> "row", s |-> RowText(c, run[i])]]
    \o <<[k |-> "sep", s |-> <<>>]>>

RECURSIVE SectionsShape(_, _)
SectionsShape(c, runs) ==
    IF runs = <<>> THEN <<>>
    ELSE SectionShape(c, Head(runs)) \o SectionsShape(c, Tail(runs))

Called == status # "idle"

Collection(c) ==
    CASE c = "mem"    -> output_data.mem
      [] c = "ctemps" -> output_data.ctemps
      [] c = "watts"  -> output_data.watts
      [] c = "fans"   -> output_data.fans
      [] c = "gpus"   -> output_data.gpus
      [] c = "drives" -> output_data.drives

Skipped(c) == c # "mem" /\ Collection(c).empty

\* the call got as far as rendering category c and finished it (with the inputs
\* above only the GPU block raises, so the blocks before it are always finished)
Rendered(c) ==
    /\ Called
    /\ ~Skipped(c)
    /\ c \in {"gpus", "drives"} => status = "ok"

----------------------------------------------------------------------------
(* C1 *)

PresentRuns(runs) ==
    SelectSeq([i \in 1..Len(runs) |-> Present(runs[i])], LAMBDA r : r # <<>>)

----------------------------------------------------------------------------
(* C2 *)

----------------------------------------------------------------------------
(* C3 *)

\* a line holding the single item of a header-only row
NameLine(vendor, name) == <<Cell(GpuNameRow(vendor, name)[1], "<", 15), NL>>

\* the GPU rows as claimed: a header-only row each time the device name differs
\* from the previous record's, before the metric row of the record
RECURSIVE GpuRowsClaimed(_, _)
GpuRowsClaimed(recs, prev) ==
    IF recs = <<>> THEN <<>>
    ELSE LET p == Head(recs)
         IN  (IF p.p1 # prev THEN <<NameLine(p.p0, p.p1)>> ELSE <<>>)
             \o (IF p.cur # "None" THEN <<RowText("gpus", p)>> ELSE <<>>)
             \o GpuRowsClaimed(Tail(recs), p.p1)

\* C3, as claimed: with a GPU category that is not empty write_summary completes,
\* and the emitted rows hold a "GPU: <name>" row wherever the device name changes.
C3_AsClaimed ==
    (Called /\ ~output_data.gpus.empty) =>
        /\ status = "ok"
        /\ RowTexts("gpus") = GpuRowsClaimed(output_data.gpus.recs, "")

----------------------------------------------------------------------------
(* C4 *)

\* C4, as claimed: format_line returns a line for lists of any lengths, with as
\* many columns as the shortest list has elements.
C4_AsClaimed ==
    fl_result.called =>
        LET n == Min(Len(fl_args.items),
                     Min(Len(fl_args.column_widths), Len(fl_args.justifications)))
        IN  /\ fl_result.err = ""
            /\ fl_result.s = [i \in 1..n |-> Cell(fl_args.items[i], fl_args.justifications[i],
                                                  fl_args.column_widths[i])] \o <<NL>>

----------------------------------------------------------------------------
(* C5 *)

\* C5, as claimed: the title of a GPU vendor section ends with the driver version
\* exactly when the vendor is nvidia.
C5_AsClaimed ==
    \A i \in 1..Len(lines) :
        (lines[i].cat = "gpus" /\ lines[i].kind = "title" /\ lines[i].s # <<>>) =>
            (lines[i].s[1].item.p1 # "" <=> lines[i].s[1].item.p0 = "nvidia")

----------------------------------------------------------------------------
(* C8 *)

SingleWidths(c) == IF c = "ctemps" THEN CtempsWidths ELSE WattsWidths

SingleText(c, p) == format_line(StatRow(p, MinMaxMean), SingleWidths(c), FourJust).s

OneHeaderAndRows(c) ==
    /\ NumSections(c) = 1
    /\ RowTexts(c) = [i \in 1..Len(Collection(c).recs) |-> SingleText(c, Collection(c).recs[i])]

\* C8, as claimed: a CPU temperature or power category that is not empty and
\* yields N records has exactly one header line and N data lines, in order.
C8_AsClaimed ==
    \A c \in {"ctemps", "watts"} : Rendered(c) => OneHeaderAndRows(c)

\* C8, amended: that holds when the category yields at least one record; when it
\* yields none, the category adds nothing to the report, the header included.
C8_SingleGroup ==
    \A c \in {"ctemps", "watts"} :
        Rendered(c) =>
            IF Collection(c).recs = <<>> THEN CatLines(c) = <<>> ELSE OneHeaderAndRows(c)

C8_Witness ==
    /\ Rendered("ctemps")
    /\ Len(output_data.ctemps.recs) = 3
    /\ Len(OfKind("ctemps", "row")) = 3
    /\ Rendered("watts")
    /\ NumSections("watts") = 1

----------------------------------------------------------------------------
(* C9 *)

RECURSIVE LinesOf(_, _, _)
LinesOf(rows, col_widths, justifications) ==
    IF rows = <<>> THEN <<>>
    ELSE format_line(Head(rows), col_widths, justifications).s
         \o LinesOf(Tail(rows), col_widths, justifications)

\* the text of a section as claimed: the title on a line of its own when it is
\* not empty, the header line, the data lines, a blank line
SectionClaimed(title, rows, headers, col_widths, justifications) ==
    IF rows = <<>> THEN <<>>
    ELSE (IF title = <<>> THEN <<>> ELSE title \o <<NL>>)
         \o format_line(headers, col_widths, justifications).s
         \o LinesOf(rows, col_widths, justifications)
         \o <<NL>>

RECURSIVE FanSectionsClaimed(_)
FanSectionsClaimed(runs) ==
    IF runs = <<>> THEN <<>>
    ELSE SectionClaimed(Title(Head(runs)[1].p0, ""),
                        [i \in 1..Len(Head(runs)) |-> StatRow(Head(runs)[i], CurMinMaxMean)],
                        FanHeaders, FiveWidths, FiveJust)
         \o FanSectionsClaimed(Tail(runs))

\* C9, as claimed: each fan section is the title as a line of its own, the
\* header line, one line per row and a blank line; no rows, no output.
C9_AsClaimed ==
    Rendered("fans") =>
        Join(CatLines("fans")) = FanSectionsClaimed(RunsOf(output_data.fans.recs))

----------------------------------------------------------------------------
(* C6 *)

IsPrefix(s, u) == Len(s) <= Len(u) /\ SubSeq(u, 1, Len(s)) = s

\* C6: from a fresh path, every write_csv call leaves the content written before
\* it in place as a prefix, and after K calls the log holds the K rows of the
\* calls, in call order.
C6_AppendOnly ==
    [][/\ IsPrefix(csv_file.content, csv_file'.content)
       /\ csv_file'.exists
       /\ ParseRows(csv_file'.content, <<>>) = csv_log'
       /\ Len(ParseRows(csv_file'.content, <<>>)) = Len(csv_log) + 1]_vars

C6_Witness ==
    /\ Len(csv_log) = 3
    /\ csv_log[1] # csv_log[2]
    /\ csv_log[3] = <<>>
    /\ Len(ParseRows(csv_file.content, <<>>)) = 3

----------------------------------------------------------------------------
(* C7 *)

Rank(c) ==
    CASE c = "preamble" -> 0
      [] c = "mem"      -> 1
      [] c = "cpu"      -> 2
      [] c = "ctemps"   -> 3
      [] c = "watts"    -> 4
      [] c = "fans"     -> 5
      [] c = "gpus"     -> 6
      [] c = "drives"   -> 7

\* C7: after a call that completes, the summary file holds exactly the rendered
\* text: the preamble first, then the blocks of the categories in the order
\* memory, CPU, CPU temperature, power, fans, GPUs, drives, and nothing else.
C7_ReportLayout ==
    status = "ok" =>
        /\ summary_file = File(TRUE, Join(lines))
        /\ Len(lines) >= 3
        /\ SubSeq(lines, 1, Len(CatLines("preamble"))) = Preamble(output_data).lines
        /\ \A i, j \in 1..Len(lines) : i < j => Rank(lines[i].cat) <= Rank(lines[j].cat)

C7_Witness ==
    /\ status = "ok"
    /\ \A c \in {"mem", "cpu", "ctemps", "watts", "fans", "drives"} : CatLines(c) # <<>>
    /\ NumSections("drives") >= 2
    /\ summary_file.content = Join(lines)

----------------------------------------------------------------------------
(* C10 *)

\* C10: a call in which rendering raises leaves the summary file as it was:
\* not created, not truncated, not written.
C10_NoWriteOnError ==
    [][status' \notin {"idle", "ok"} => summary_file' = summary_file]_vars

C10_Witness ==
    /\ status = "IndexError"
    /\ summary_file = OldSummary
    /\ CatLines("gpus") # <<>>

====
